---- MODULE Spec2Model ----
(***************************************************************************)
(* hcstatic-str: global, permanent, packed, hashconsed short strings.      *)
(*                                                                         *)
(* The model follows src/src/lib.rs.  Memory is a growing list of leaked   *)
(* Chunks (Chunk::new), each a byte vector of CHUNK_SIZE bytes and a       *)
(* cursor pos.  A Str is a raw pointer into a chunk's data: the pair of    *)
(* the chunk (its allocation number) and the byte offset in it, so two     *)
(* pointers are the same address exactly when the pairs are equal.  ROOT   *)
(* is a mutex around (all, root).  Each thread runs Str::try_from step by  *)
(* step; the steps inside the mutex are the statements of try_from and     *)
(* Chunk::insert.  Dereferencing (Str::get) is a step of its own that does *)
(* not look at the mutex.                                                  *)
(***************************************************************************)
EXTENDS Naturals, Sequences, FiniteSets

VARIABLES
    chunks,     \* every Chunk ever leaked, in allocation order: [data, pos]
    root,       \* Root.root: the number of the active chunk
    all,        \* Root.all: the set of canonical Str
    mutex,      \* ROOT's mutex: 0 when free, else the thread that holds it
    pc,         \* per thread: where it is in try_from
    arg,        \* per thread: s, the argument of the try_from in progress
    tloc,       \* per thread: t, the chunk Chunk::insert is looking at
    res,        \* per thread: the Str the call is about to return
    raced,      \* per thread (history): the call overlaps another call with the
                \* same s, both begun before s was in the set
    issued,     \* history: <<s, Str>> for every Ok returned so far
    errs,       \* history: every s for which an Err was returned
    lastDeref   \* the last Str::get done: [h, val, during]

vars == <<chunks, root, all, mutex, pc, arg, tloc, res, raced, issued, errs, lastDeref>>

(* ---------------------------- bounds ----------------------------------- *)

\* Chunk capacity. The program's value is 1 MiB (lib.rs:18); the model keeps
\* it just above one maximal record so that chunks fill up and rotate.
CHUNK_SIZE == 258

\* Number of threads calling try_from and dereferencing.
NThreads == 2

(* --------------------------- constants --------------------------------- *)

\* u8::MAX, the largest accepted byte length and the largest length byte.
U8_MAX == 255

\* The longest string the crate documentation promises to support.
DOC_MAX_LEN == 256

Threads == 1..NThreads

Rep(n, b) == [i \in 1..n |-> b]

\* The strings (as byte sequences) the callers pass: the empty string, a
\* one-byte string, a string of exactly u8::MAX bytes (which sorts between
\* the two) and one of u8::MAX + 1 bytes.
Inputs ==
    { <<>>, <<98>>, Rep(U8_MAX, 97), Rep(U8_MAX + 1, 97) }

NULL == [c |-> 0, o |-> 0]

NoDeref == [h |-> NULL, val |-> <<>>, during |-> "never"]

(* ------------------------------ Chunk ---------------------------------- *)

\* Chunk::new: a zeroed vector of CHUNK_SIZE bytes and pos 0.
NewChunk == [data |-> [i \in 1..CHUNK_SIZE |-> 0], pos |-> 0]

\* (mutant) the length masked with u8::MAX instead of truncated to 8 bits.
AsU8Mask(n) == n % U8_MAX

\* `as u8`: truncation to 8 bits.
AsU8(n) == n % (U8_MAX + 1)

\* (mutant) the test asks for one byte more than the record needs.
FitsStrict(t, n) == CHUNK_SIZE - chunks[t].pos > n + 1

\* (mutant) the test forgets the length byte.
FitsGe(t, n) == CHUNK_SIZE - chunks[t].pos >= n

\* The test of Chunk::insert's loop: the record fits in chunk t.
Fits(t, n) == CHUNK_SIZE - chunks[t].pos > n

\* t.data[t.pos] = str.len() as u8
PutLen(d, pos, s) == [d EXCEPT ![pos + 1] = AsU8(Len(s))]

\* (mutant) the content copied from t.pos on, over the length byte.
PutBytesAtPos(d, pos, s) ==
    SubSeq(d, 1, pos) \o s \o SubSeq(d, pos + Len(s) + 1, CHUNK_SIZE)

\* t.data[t.pos + 1..t.pos + 1 + str.len()].copy_from_slice(str)
PutBytes(d, pos, s) ==
    SubSeq(d, 1, pos + 1) \o s \o SubSeq(d, pos + Len(s) + 2, CHUNK_SIZE)

\* (mutant) the pointer is taken one byte past the length byte.
MkStrOff(t) == [c |-> t, o |-> chunks[t].pos + 1]

\* Str(t.data.as_ptr().wrapping_add(t.pos))
MkStr(t) == [c |-> t, o |-> chunks[t].pos]

\* (mutant) the cursor advances one byte too far.
NextPosGap(pos, s) == pos + 2 + Len(s)

\* t.pos += 1 + str.len()
NextPos(pos, s) == pos + 1 + Len(s)

(* ------------------------------- Str ----------------------------------- *)

\* What Str::get yields when the length byte or the content lies outside
\* the chunk's vector. Such a read is undefined behaviour; it is represented
\* by a string that no caller can pass (256 is no byte), so that an equation
\* between it and an interned content never holds.
Wild == <<256>>

\* (mutant) the content read from the pointer itself, length byte included.
getNoSkip(h) ==
    LET d == chunks[h.c].data
    IN  IF h.o >= Len(d) THEN Wild
        ELSE IF h.o + d[h.o + 1] > Len(d) THEN Wild
        ELSE SubSeq(d, h.o + 1, h.o + d[h.o + 1])

\* Str::get: the length byte at the pointer, then that many bytes.
get(h) ==
    LET d == chunks[h.c].data
    IN  IF h.o >= Len(d) THEN Wild
        ELSE IF h.o + 1 + d[h.o + 1] > Len(d) THEN Wild
        ELSE SubSeq(d, h.o + 2, h.o + 1 + d[h.o + 1])

\* PartialEq for Str: equality of the dereferenced strings.
StrEq(a, b) == get(a) = get(b)

\* The number of leading bytes on which x and y agree, given that they
\* agree on the first lo and that it is at most hi (found by halving).
RECURSIVE CommonPrefix(_, _, _, _)
CommonPrefix(x, y, lo, hi) ==
    IF lo >= hi THEN lo
    ELSE LET mid == (lo + hi + 1) \div 2
         IN  IF SubSeq(x, lo + 1, mid) = SubSeq(y, lo + 1, mid)
             THEN CommonPrefix(x, y, mid, hi)
             ELSE CommonPrefix(x, y, lo, mid - 1)

\* Ord for str (the comparison of byte slices): the bytes of the common
\* length are compared up to the first that differs; when none differs the
\* lengths decide.
CmpBytes(x, y) ==
    LET n == IF Len(x) < Len(y) THEN Len(x) ELSE Len(y)
        k == CommonPrefix(x, y, 0, n)
    IN  IF k < n THEN (IF x[k + 1] < y[k + 1] THEN "Less" ELSE "Greater")
        ELSE IF Len(x) < Len(y) THEN "Less"
        ELSE IF Len(x) > Len(y) THEN "Greater"
        ELSE "Equal"

\* (mutant) the derived ordering of the raw pointers.
StrCmpPtr(a, b) ==
    IF a = b THEN "Equal"
    ELSE IF a.c < b.c \/ (a.c = b.c /\ a.o < b.o) THEN "Less"
    ELSE "Greater"

\* Ord for Str: the comparison of the dereferenced strings.
StrCmp(a, b) == CmpBytes(get(a), get(b))

(* ------------------------------- Root ---------------------------------- *)

\* (mutant) a lookup that never finds anything.
FindNever(s) == {t \in all : FALSE}

\* root.all.get(s): the entries whose string equals s (Borrow<str>).
Find(s) == {t \in all : get(t) = s}

\* (mutant) the set replaced by the new entry.
AllInsertReplace(t) == {t}

\* root.all.insert(t): a HashSet keeps the entry it has when an equal one
\* is inserted.
AllInsert(t) == IF \E u \in all : StrEq(u, t) THEN all ELSE all \cup {t}

\* (mutant) the bound of the crate documentation, 256 bytes.
TooLongOffByOne(s) == Len(s) > U8_MAX + 1

\* (mutant) no length test at all.
TooLongNever(s) == FALSE

\* s.as_bytes().len() > u8::MAX as usize
TooLong(s) == Len(s) > U8_MAX

(* ------------------------------- Init ---------------------------------- *)

\* ROOT after Lazy::new: an empty set and one fresh chunk; no call running.
Init ==
    /\ chunks = <<NewChunk>>
    /\ root = 1
    /\ all = {}
    /\ mutex = 0
    /\ pc = [p \in Threads |-> "idle"]
    /\ arg = [p \in Threads |-> <<>>]
    /\ tloc = [p \in Threads |-> 0]
    /\ res = [p \in Threads |-> NULL]
    /\ raced = [p \in Threads |-> FALSE]
    /\ issued = {}
    /\ errs = {}
    /\ lastDeref = NoDeref

(* ------------------------- Str::try_from ------------------------------- *)

\* try_from(s) with s too long: bail!, without touching ROOT.
TryFromBail(p, s) ==
    /\ pc[p] = "idle"
    /\ TooLong(s)
    /\ errs' = errs \cup {s}
    /\ UNCHANGED <<chunks, root, all, mutex, pc, arg, tloc, res, raced, issued, lastDeref>>

\* try_from(s) with s short enough: the thread goes on to ROOT.lock().
TryFromCall(p, s) ==
    /\ pc[p] = "idle"
    /\ ~TooLong(s)
    /\ pc' = [pc EXCEPT ![p] = "lock"]
    /\ arg' = [arg EXCEPT ![p] = s]
    /\ raced' = IF (\E r \in Threads \ {p} : pc[r] # "idle" /\ arg[r] = s) /\ Find(s) = {}
                THEN [q \in Threads |-> q = p \/ (pc[q] # "idle" /\ arg[q] = s) \/ raced[q]]
                ELSE raced
    /\ UNCHANGED <<chunks, root, all, mutex, tloc, res, issued, errs, lastDeref>>

\* (mutant) a lock that does not wait.
LockNoWait(p) ==
    /\ pc[p] = "lock"
    /\ mutex' = p
    /\ pc' = [pc EXCEPT ![p] = "lookup"]
    /\ UNCHANGED <<chunks, root, all, arg, tloc, res, raced, issued, errs, lastDeref>>

\* ROOT.lock(): waits until the mutex is free.
Lock(p) ==
    /\ pc[p] = "lock"
    /\ mutex = 0
    /\ mutex' = p
    /\ pc' = [pc EXCEPT ![p] = "lookup"]
    /\ UNCHANGED <<chunks, root, all, arg, tloc, res, raced, issued, errs, lastDeref>>

\* (mutant) a hit goes on to Chunk::insert all the same.
LookupHitInsert(p) ==
    /\ pc[p] = "lookup"
    /\ Find(arg[p]) # {}
    /\ tloc' = [tloc EXCEPT ![p] = root]
    /\ pc' = [pc EXCEPT ![p] = "insert"]
    /\ UNCHANGED <<chunks, root, all, mutex, arg, res, raced, issued, errs, lastDeref>>

\* match root.all.get(s) { Some(t) => Ok(*t), ...
LookupHit(p) ==
    /\ pc[p] = "lookup"
    /\ \E t \in Find(arg[p]) :
         res' = [res EXCEPT ![p] = t]
    /\ pc' = [pc EXCEPT ![p] = "unlock"]
    /\ UNCHANGED <<chunks, root, all, mutex, arg, tloc, raced, issued, errs, lastDeref>>

\* ... None => (*root.root).insert(s): enter Chunk::insert with t = self.
LookupMiss(p) ==
    /\ pc[p] = "lookup"
    /\ Find(arg[p]) = {}
    /\ tloc' = [tloc EXCEPT ![p] = root]
    /\ pc' = [pc EXCEPT ![p] = "insert"]
    /\ UNCHANGED <<chunks, root, all, mutex, arg, res, raced, issued, errs, lastDeref>>

\* Chunk::insert, loop test true: go on to write into t.
InsertFits(p) ==
    /\ pc[p] = "insert"
    /\ Fits(tloc[p], Len(arg[p]))
    /\ pc' = [pc EXCEPT ![p] = "putlen"]
    /\ UNCHANGED <<chunks, root, all, mutex, arg, tloc, res, raced, issued, errs, lastDeref>>

\* (mutant) the full chunk is reset and reused instead of a new one leaked.
InsertRecycle(p) ==
    /\ pc[p] = "insert"
    /\ ~Fits(tloc[p], Len(arg[p]))
    /\ chunks' = [chunks EXCEPT ![tloc[p]] = NewChunk]
    /\ UNCHANGED <<root, all, mutex, pc, arg, tloc, res, raced, issued, errs, lastDeref>>

\* (mutant) the new chunk is leaked but t is not moved to it.
InsertNewDrop(p) ==
    /\ pc[p] = "insert"
    /\ ~Fits(tloc[p], Len(arg[p]))
    /\ chunks' = Append(chunks, NewChunk)
    /\ UNCHANGED <<root, all, mutex, pc, arg, tloc, res, raced, issued, errs, lastDeref>>

\* Chunk::insert, loop test false: t = Self::new(), and loop.
InsertNew(p) ==
    /\ pc[p] = "insert"
    /\ ~Fits(tloc[p], Len(arg[p]))
    /\ chunks' = Append(chunks, NewChunk)
    /\ tloc' = [tloc EXCEPT ![p] = Len(chunks) + 1]
    /\ UNCHANGED <<root, all, mutex, pc, arg, res, raced, issued, errs, lastDeref>>

\* t.data[t.pos] = str.len() as u8
WriteLen(p) ==
    /\ pc[p] = "putlen"
    /\ chunks' = [chunks EXCEPT ![tloc[p]].data =
                     PutLen(@, chunks[tloc[p]].pos, arg[p])]
    /\ pc' = [pc EXCEPT ![p] = "copy"]
    /\ UNCHANGED <<root, all, mutex, arg, tloc, res, raced, issued, errs, lastDeref>>

\* t.data[t.pos + 1..t.pos + 1 + str.len()].copy_from_slice(str)
CopySlice(p) ==
    /\ pc[p] = "copy"
    /\ chunks' = [chunks EXCEPT ![tloc[p]].data =
                     PutBytes(@, chunks[tloc[p]].pos, arg[p])]
    /\ pc' = [pc EXCEPT ![p] = "advance"]
    /\ UNCHANGED <<root, all, mutex, arg, tloc, res, raced, issued, errs, lastDeref>>

\* let res = Str(..); t.pos += 1 + str.len(); break (t, res)
Advance(p) ==
    /\ pc[p] = "advance"
    /\ res' = [res EXCEPT ![p] = MkStr(tloc[p])]
    /\ chunks' = [chunks EXCEPT ![tloc[p]].pos = NextPos(@, arg[p])]
    /\ pc' = [pc EXCEPT ![p] = "setroot"]
    /\ UNCHANGED <<root, all, mutex, arg, tloc, raced, issued, errs, lastDeref>>

\* (mutant) the returned chunk is not adopted.
SetRootSkip(p) ==
    /\ pc[p] = "setroot"
    /\ pc' = [pc EXCEPT ![p] = "register"]
    /\ UNCHANGED <<chunks, root, all, mutex, arg, tloc, res, raced, issued, errs, lastDeref>>

\* root.root = r
SetRoot(p) ==
    /\ pc[p] = "setroot"
    /\ root' = tloc[p]
    /\ pc' = [pc EXCEPT ![p] = "register"]
    /\ UNCHANGED <<chunks, all, mutex, arg, tloc, res, raced, issued, errs, lastDeref>>

\* (mutant) the guard is dropped before the set is updated.
RegisterUnlocked(p) ==
    /\ pc[p] = "register"
    /\ all' = AllInsert(res[p])
    /\ mutex' = 0
    /\ pc' = [pc EXCEPT ![p] = "unlock"]
    /\ UNCHANGED <<chunks, root, arg, tloc, res, raced, issued, errs, lastDeref>>

\* root.all.insert(t); Ok(t)
Register(p) ==
    /\ pc[p] = "register"
    /\ all' = AllInsert(res[p])
    /\ pc' = [pc EXCEPT ![p] = "unlock"]
    /\ UNCHANGED <<chunks, root, mutex, arg, tloc, res, raced, issued, errs, lastDeref>>

\* (mutant) the call returns and the guard is never dropped.
UnlockLeak(p) ==
    /\ pc[p] = "unlock"
    /\ issued' = issued \cup {<<arg[p], res[p]>>}
    /\ pc' = [pc EXCEPT ![p] = "idle"]
    /\ arg' = [arg EXCEPT ![p] = <<>>]
    /\ tloc' = [tloc EXCEPT ![p] = 0]
    /\ res' = [res EXCEPT ![p] = NULL]
    /\ raced' = [raced EXCEPT ![p] = FALSE]
    /\ UNCHANGED <<chunks, root, all, mutex, errs, lastDeref>>

\* The guard is dropped and the call returns Ok(res).
Unlock(p) ==
    /\ pc[p] = "unlock"
    /\ mutex' = 0
    /\ issued' = issued \cup {<<arg[p], res[p]>>}
    /\ pc' = [pc EXCEPT ![p] = "idle"]
    /\ arg' = [arg EXCEPT ![p] = <<>>]
    /\ tloc' = [tloc EXCEPT ![p] = 0]
    /\ res' = [res EXCEPT ![p] = NULL]
    /\ raced' = [raced EXCEPT ![p] = FALSE]
    /\ UNCHANGED <<chunks, root, all, errs, lastDeref>>

(* ------------------------------ Deref ---------------------------------- *)

\* What the thread inside the mutex, if any, is doing: "writing" while a
\* record's bytes are being stored beyond the cursor (the length byte is
\* written, the cursor not yet advanced), else "locked".
Writer ==
    IF mutex = 0 THEN "free"
    ELSE IF pc[mutex] \in {"copy", "advance"} THEN "writing"
    ELSE "locked"

\* A thread that is not inside try_from dereferences a Str it was given
\* (Str is Copy and Send, so any Str returned so far). No use of the mutex.
Deref(p, h) ==
    /\ pc[p] = "idle"
    /\ \E e \in issued : e[2] = h
    /\ lastDeref' = [h |-> h, val |-> get(h), during |-> Writer]
    /\ UNCHANGED <<chunks, root, all, mutex, pc, arg, tloc, res, raced, issued, errs>>

Handles == {e[2] : e \in issued}

\* One step of a thread inside Str::try_from, its arguments drawn from S.
TryFrom(p, S) ==
        \/ \E s \in S : TryFromBail(p, s)
        \/ \E s \in S : TryFromCall(p, s)
        \/ Lock(p)
        \/ LookupHit(p)
        \/ LookupMiss(p)
        \/ InsertFits(p)
        \/ InsertNew(p)
        \/ WriteLen(p)
        \/ CopySlice(p)
        \/ Advance(p)
        \/ SetRoot(p)
        \/ Register(p)
        \/ Unlock(p)

\* Threads interning concurrently (no dereference is recorded: lastDeref
\* stays NoDeref).
Next == \E p \in Threads : TryFrom(p, Inputs)

Spec == Init /\ [][Next]_vars

\* Threads interning and dereferencing concurrently.
NextDeref ==
    \E p \in Threads :
        \/ TryFrom(p, Inputs)
        \/ \E h \in Handles : Deref(p, h)

SpecDeref == Init /\ [][NextDeref]_vars

\* The steps of a thread that holds the mutex, from the lookup to the
\* release: straight-line code (and a loop that ends) run by a live thread.
Body(p) ==
    \/ LookupHit(p)
    \/ LookupMiss(p)
    \/ InsertFits(p)
    \/ InsertNew(p)
    \/ WriteLen(p)
    \/ CopySlice(p)
    \/ Advance(p)
    \/ SetRoot(p)
    \/ Register(p)
    \/ Unlock(p)

\* Scheduling: the thread inside the mutex keeps running (weak fairness of
\* the steps inside the mutex, which only its holder can take), and a
\* thread waiting in ROOT.lock() gets the mutex if it is free again and
\* again (strong fairness: parking_lot's Mutex is eventually fair). Callers
\* need not call: no fairness for the start of a call.
Fairness ==
    /\ WF_vars(\E p \in Threads : Body(p))
    /\ \A p \in Threads : SF_vars(Lock(p))

\* Threads interning concurrently under fair scheduling.
SpecFair == Init /\ [][Next]_vars /\ Fairness

(* ====================== properties of the program ====================== *)

\* The Str a thread holds at "unlock" and is about to return, with its s.
Pending == {<<arg[p], res[p]>> : p \in {q \in Threads : pc[q] = "unlock"}}

\* Every <<s, Str>> returned or about to be returned.
Given == issued \cup Pending

\* A call that found its s in the set (it never entered Chunk::insert).
IsHit(p) == pc[p] = "unlock" /\ tloc[p] = 0

\* The lexicographic order of byte strings, stated on its own: with k the
\* length of the longest common prefix of x and y, x is before y when x ends
\* at k and y goes on, or both go on and x has the smaller next byte.
LexLess(x, y) ==
    LET k == CommonPrefix(x, y, 0, IF Len(x) < Len(y) THEN Len(x) ELSE Len(y))
    IN  \/ k = Len(x) /\ k < Len(y)
        \/ k < Len(x) /\ k < Len(y) /\ x[k + 1] < y[k + 1]

\* The records of chunk c from offset o up to its cursor, read off the bytes:
\* a length byte, its content, then the next record.
RECURSIVE RecordsFrom(_, _)
RecordsFrom(c, o) ==
    IF o >= chunks[c].pos THEN {}
    ELSE {[c |-> c, o |-> o]} \cup RecordsFrom(c, o + 1 + chunks[c].data[o + 1])

\* Every record below a cursor, over all chunks.
Records == UNION {RecordsFrom(c, 0) : c \in 1..Len(chunks)}

\* C1: every string of at most u8::MAX bytes is accepted (no Err is ever
\* returned for one, whatever was interned before and however full the
\* active chunk is), and the Str returned for s dereferences to exactly s.
C1_RoundTrip ==
    /\ \A s \in errs : Len(s) > U8_MAX
    /\ \A e \in Given : get(e[2]) = e[1]

\* C1 witness: the empty string and a string of exactly u8::MAX bytes have
\* both been returned, the long one written at a non-zero cursor.
C1_Witness ==
    /\ \E e \in issued : e[1] = <<>> /\ get(e[2]) = <<>>
    /\ \E e \in issued : Len(e[1]) = U8_MAX /\ e[2].o > 0 /\ get(e[2]) = e[1]

\* C2: two calls with the same s return the same address, whatever
\* happens between them.
C2_SameAddress ==
    \A e1 \in Given : \A e2 \in Given : e1[1] = e2[1] => e1[2] = e2[2]

\* C2 witness: a call is returning, from a hit, the address returned
\* earlier for the same s, although the active chunk has rotated away from
\* that address's chunk and a too-long intern has failed meanwhile.
C2_Witness ==
    \E p \in Threads :
        /\ IsHit(p)
        /\ <<arg[p], res[p]>> \in issued
        /\ res[p].c # root
        /\ errs # {}

\* C3: calls that run concurrently with the same content all return the
\* same address, and memory never holds two records of one content; a
\* content that was returned has exactly one record.
C3_Concurrent ==
    /\ \A e1 \in Given : \A e2 \in Given : e1[1] = e2[1] => e1[2] = e2[2]
    /\ \A r1 \in Records : \A r2 \in Records : get(r1) = get(r2) => r1 = r2
    /\ \A e \in Given : Cardinality({r \in Records : get(r) = e[1]}) = 1

\* C3 witness: a thread whose call overlapped another call with the same
\* s, both begun before s was interned, is returning from a hit the address
\* the other call has already returned.
C3_Witness ==
    \E p \in Threads :
        /\ IsHit(p)
        /\ raced[p]
        /\ <<arg[p], res[p]>> \in issued

C5_Supports256 == \A s \in errs : Len(s) > DOC_MAX_LEN

\* C6: a Str once returned keeps its content (and stays returned) in every
\* later step, and no chunk is ever dropped or moved.
C6_Permanence ==
    [][ /\ issued \subseteq issued'
        /\ Len(chunks') >= Len(chunks)
        /\ \A e \in issued : get(e[2])' = get(e[2]) /\ get(e[2])' = e[1] ]_vars

\* C6 witness: a returned Str lies in a chunk that is no longer the active
\* one, the active chunk holds records of its own, and the Str still
\* dereferences to its string.
C6_Witness ==
    \E e \in issued :
        /\ e[2].c # root
        /\ chunks[root].pos > 0
        /\ get(e[2]) = e[1]

\* C7: for each content returned so far the set holds exactly one Str that
\* dereferences to it, and the set only grows.
C7_Registry ==
    /\ [](\A e \in issued : Cardinality({t \in all : get(t) = e[1]}) = 1)
    /\ [][all \subseteq all']_vars

\* C7 witness: every valid input has been returned and the set holds one
\* Str for each, while a call is returning an existing entry from a hit.
C7_Witness ==
    /\ Cardinality(all) = Cardinality({s \in Inputs : Len(s) <= U8_MAX})
    /\ Cardinality({e[1] : e \in issued}) = Cardinality(all)
    /\ \E p \in Threads : IsHit(p)

\* C8: for any two returned Str, they compare equal exactly when their
\* contents are equal, and exactly when their addresses are equal.
C8_EqIffSame ==
    \A e1 \in Given : \A e2 \in Given :
        /\ StrEq(e1[2], e2[2]) <=> (e1[1] = e2[1])
        /\ StrEq(e1[2], e2[2]) <=> (e1[2] = e2[2])

\* C8 witness: two Str of different contents lie in different chunks and
\* compare unequal, and two more share one chunk and compare unequal.
C8_Witness ==
    /\ \E e1 \in issued : \E e2 \in issued :
          /\ e1[1] # e2[1]
          /\ e1[2].c # e2[2].c
          /\ ~StrEq(e1[2], e2[2])
    /\ \E e1 \in issued : \E e2 \in issued :
          /\ e1[2] # e2[2]
          /\ e1[2].c = e2[2].c
          /\ ~StrEq(e1[2], e2[2])

\* C9: a dereference, done without regard to the mutex, reads the complete
\* content the Str was returned for, whatever the thread inside the mutex
\* was doing at that moment.
C9_DerefLockFree ==
    lastDeref # NoDeref =>
        \E e \in issued : e[2] = lastDeref.h /\ e[1] = lastDeref.val

\* C9 witness: the only Str returned so far was dereferenced, to its full
\* content, while another thread held the mutex and had written into the
\* same chunk the length byte of the next record but not yet its content;
\* that thread is still at that point.
C9_Witness ==
    /\ lastDeref.during = "writing"
    /\ Cardinality(issued) = 1
    /\ mutex # 0
    /\ pc[mutex] = "copy"
    /\ tloc[mutex] = lastDeref.h.c
    /\ \E e \in issued : e[2] = lastDeref.h /\ e[1] = lastDeref.val /\ Len(e[1]) > 0

\* C10: the order of two Str is the lexicographic order of their contents,
\* and it is Equal exactly when the two compare equal.
C10_Order ==
    \A e1 \in Given : \A e2 \in Given :
        LET c == StrCmp(e1[2], e2[2])
        IN  /\ c = "Less" <=> LexLess(e1[1], e2[1])
            /\ c = "Greater" <=> LexLess(e2[1], e1[1])
            /\ c = "Equal" <=> StrEq(e1[2], e2[2])

\* C10 witness: a Str at a higher address (a later chunk) is Less than one
\* at a lower address, and within one chunk the Str at the higher offset is
\* Less than the one at the lower offset.
C10_Witness ==
    /\ \E e1 \in issued : \E e2 \in issued :
          e1[2].c > e2[2].c /\ StrCmp(e1[2], e2[2]) = "Less"
    /\ \E e1 \in issued : \E e2 \in issued :
          e1[2].c = e2[2].c /\ e1[2].o > e2[2].o /\ StrCmp(e1[2], e2[2]) = "Less"

\* What is left of chunk c: capacity minus cursor.
Free(c) == CHUNK_SIZE - chunks[c].pos

\* The bytes a record of s takes: the length byte and the content.
RecSize(s) == Len(s) + 1

\* C11: in Chunk::insert the record goes into the chunk at hand exactly when
\* what is left of it is at least length + 1, and a new chunk is taken
\* otherwise; a record that needs exactly what is left is written in place
\* and leaves the cursor at the capacity.
C11_FitsExactly ==
    [][ \A p \in Threads :
          LET t == tloc[p] IN
          /\ (pc[p] = "insert" /\ pc'[p] = "putlen") =>
                /\ Free(t) >= RecSize(arg[p])
                /\ UNCHANGED <<chunks, tloc>>
          /\ (pc[p] = "insert" /\ pc'[p] = "insert" /\ tloc'[p] # t) =>
                /\ Free(t) < RecSize(arg[p])
                /\ Len(chunks') = Len(chunks) + 1
          /\ (pc[p] = "advance" /\ pc'[p] = "setroot" /\ Free(t) = RecSize(arg[p])) =>
                /\ chunks'[t].pos = CHUNK_SIZE
                /\ res'[p].c = t ]_vars

\* C11 witness: the active chunk was filled to its capacity by a record
\* that fitted exactly, and the insert of the empty string that came next
\* has left it for a new chunk.
C11_Witness ==
    \E p \in Threads :
        /\ pc[p] = "insert"
        /\ arg[p] = <<>>
        /\ tloc[p] # root
        /\ chunks[root].pos = CHUNK_SIZE
        /\ \E h \in all : h.c = root /\ h.o + RecSize(get(h)) = CHUNK_SIZE

\* C12: on a miss the Str points at the cursor the chunk written to had
\* before the write, the byte there is the length, the next length bytes
\* are the content, the cursor moves by exactly length + 1, and the record
\* starts where the chunk's previous record ends (or at 0).
C12_RecordLayout ==
    [][ \A p \in Threads :
          (pc[p] = "advance" /\ pc'[p] = "setroot") =>
             LET t == tloc[p]
                 o == chunks[t].pos
                 n == Len(arg[p])
             IN  /\ res'[p] = [c |-> t, o |-> o]
                 /\ chunks'[t].pos = o + n + 1
                 /\ chunks'[t].data = chunks[t].data
                 /\ chunks[t].data[o + 1] = n
                 /\ SubSeq(chunks[t].data, o + 2, o + 1 + n) = arg[p]
                 /\ \/ o = 0
                    \/ \E h \in all : h.c = t /\ h.o + RecSize(get(h)) = o ]_vars

\* C12 witness: a call that missed holds the Str of a non-empty record it
\* has just written behind another record; the record ends at the cursor.
C12_Witness ==
    \E p \in Threads :
        /\ pc[p] = "setroot"
        /\ res[p].o > 0
        /\ Len(arg[p]) > 0
        /\ get(res[p]) = arg[p]
        /\ chunks[res[p].c].pos = res[p].o + RecSize(arg[p])

\* C13: a record that does not fit goes to offset 0 of a new chunk whose
\* cursor starts at 0; the set's owner has adopted that chunk by the time
\* the mutex is released; and a chunk once left (a later chunk exists) is
\* never changed again.
C13_Rotation ==
    /\ [](/\ mutex = 0 => root = Len(chunks)
          /\ \A p \in Threads :
                (pc[p] = "unlock" /\ tloc[p] # 0) => root = tloc[p])
    /\ [][ /\ \A c \in 1..Len(chunks) :
                c < Len(chunks) => chunks'[c] = chunks[c]
           /\ \A p \in Threads :
                /\ (pc[p] = "insert" /\ pc'[p] = "insert" /\ tloc'[p] # tloc[p]) =>
                      /\ tloc'[p] = Len(chunks) + 1
                      /\ chunks' = Append(chunks, NewChunk)
                /\ (pc[p] = "advance" /\ pc'[p] = "setroot" /\ tloc[p] # root) =>
                      /\ res'[p] = [c |-> tloc[p], o |-> 0]
                      /\ tloc[p] = Len(chunks) ]_vars

\* C13 witness: a call is about to release the mutex after a rotation: the
\* active chunk is a later chunk, its first record is the one just written,
\* and the chunk left behind holds records.
C13_Witness ==
    \E p \in Threads :
        /\ pc[p] = "unlock"
        /\ root > 1
        /\ tloc[p] = root
        /\ res[p] = [c |-> root, o |-> 0]
        /\ chunks[1].pos > 0

\* C14: every chunk ever leaked has its cursor at most at the capacity (and
\* its vector at the capacity), and the record of every Str in the set,
\* length byte and content, lies below the cursor of its chunk.
C14_RegionInv ==
    /\ \A c \in 1..Len(chunks) :
          /\ chunks[c].pos <= CHUNK_SIZE
          /\ Len(chunks[c].data) = CHUNK_SIZE
    /\ \A h \in all :
          /\ h.c \in 1..Len(chunks)
          /\ h.o < chunks[h.c].pos
          /\ h.o + 1 + chunks[h.c].data[h.o + 1] <= chunks[h.c].pos

\* C14 witness: a chunk that was left behind has its cursor at the capacity
\* and its last record ends there, and the chunk after it holds a record of
\* the set as well.
C14_Witness ==
    /\ Len(chunks) >= 2
    /\ chunks[1].pos = CHUNK_SIZE
    /\ \E h \in all : h.c = 1 /\ h.o > 0 /\ h.o + RecSize(get(h)) = CHUNK_SIZE
    /\ \E h \in all : h.c = 2 /\ h.o + RecSize(get(h)) = chunks[2].pos

\* C15: while the thread inside the mutex has an s whose content is in the
\* set, no step changes the chunks (none is added either), the active chunk
\* or the set; and what a hit returns is an entry of the set.
C15_HitNoChange ==
    [][ /\ (mutex # 0 /\ \E u \in all : get(u) = arg[mutex]) =>
              UNCHANGED <<chunks, root, all>>
        /\ \A p \in Threads :
              (pc[p] = "lock" /\ pc'[p] = "lookup") => UNCHANGED <<chunks, root, all>>
        /\ \A p \in Threads :
              (pc[p] = "lookup" /\ pc'[p] = "unlock") =>
                  /\ res'[p] \in all
                  /\ get(res'[p]) = arg[p] ]_vars

\* C15 witness: a call has hit an entry whose record of u8::MAX bytes lies
\* in a chunk that is no longer the active one.
C15_Witness ==
    \E p \in Threads :
        /\ IsHit(p)
        /\ res[p] \in all
        /\ get(res[p]) = arg[p]
        /\ Len(arg[p]) = U8_MAX
        /\ res[p].c # root

\* A thread between ROOT.lock() returning and the guard being dropped.
InCS(p) ==
    pc[p] \in {"lookup", "insert", "putlen", "copy", "advance", "setroot", "register", "unlock"}

\* C16: at most one thread is between acquiring and releasing the mutex, it
\* is the thread the mutex records, and the chunks, the active chunk and the
\* set change only in steps of that thread.
C16_MutualExclusion ==
    /\ [](/\ Cardinality({p \in Threads : InCS(p)}) <= 1
          /\ \A p \in Threads : InCS(p) <=> mutex = p)
    /\ [][ <<chunks, root, all>>' # <<chunks, root, all>> =>
              /\ mutex # 0
              /\ mutex' = mutex
              /\ <<pc[mutex], tloc[mutex], res[mutex]>>' # <<pc[mutex], tloc[mutex], res[mutex]>>
              /\ \A q \in Threads \ {mutex} :
                    <<pc[q], arg[q], tloc[q], res[q]>>' = <<pc[q], arg[q], tloc[q], res[q]>> ]_vars

\* C16 witness: one thread is inside the mutex, half way through a record
\* in a new chunk that is not yet adopted, while another thread with a
\* different s waits for the mutex.
C16_Witness ==
    \E p \in Threads : \E q \in Threads \ {p} :
        /\ mutex = p
        /\ pc[p] = "copy"
        /\ tloc[p] > root
        /\ pc[q] = "lock"
        /\ arg[q] # arg[p]

\* C17: under fair scheduling every call returns: a thread that is inside
\* try_from is eventually outside it again; the mutex is never held by a
\* thread that is not inside a call; and a call with a too-long s returns
\* in its own step, with the mutex and every thread's place untouched.
C17_Returns ==
    /\ \A p \in Threads : (pc[p] # "idle") ~> (pc[p] = "idle")
    /\ [](mutex # 0 => InCS(mutex))
    /\ [][errs' # errs => UNCHANGED <<mutex, pc>>]_vars

\* C17 witness: a thread waits for the mutex while another holds it, after
\* calls have returned on the hit path, on the miss path and with the error.
C17_Witness ==
    \E p \in Threads : \E q \in Threads \ {p} :
        /\ pc[p] = "lock"
        /\ mutex = q
        /\ IsHit(q)
        /\ <<arg[q], res[q]>> \in issued
        /\ errs # {}

\* C18: one call of try_from takes at most one new chunk, and the loop of
\* Chunk::insert ends. A chunk is added only by a thread at the loop whose
\* t is still the active chunk, one chunk at a time, and t moves to it; a
\* thread at the loop with t moved holds an s of at most u8::MAX bytes and
\* an empty chunk in which the record fits, so the loop test passes; never
\* more than one chunk exists beyond the active one, and none while the
\* mutex is free; and a thread at the loop goes on to write.
C18_OneAllocation ==
    /\ [](/\ Len(chunks) - root <= 1
          /\ mutex = 0 => Len(chunks) = root
          /\ \A p \in Threads :
                (pc[p] = "insert" /\ tloc[p] # root) =>
                   /\ tloc[p] = root + 1
                   /\ Len(arg[p]) <= U8_MAX
                   /\ chunks[tloc[p]].pos = 0
                   /\ Free(tloc[p]) >= RecSize(arg[p]))
    /\ [][ Len(chunks') # Len(chunks) =>
             \E p \in Threads :
                 /\ pc[p] = "insert" /\ pc'[p] = "insert"
                 /\ tloc[p] = root
                 /\ Len(chunks') = Len(chunks) + 1
                 /\ tloc'[p] = Len(chunks')
                 /\ root' = root ]_vars
    /\ (\E p \in Threads : pc[p] = "insert") ~> (\E p \in Threads : pc[p] = "putlen")

\* C18 witness: a string of u8::MAX bytes did not fit in the active chunk,
\* one new chunk was taken, and the thread has left the loop to write into
\* it; the new chunk is the only one beyond the active chunk.
C18_Witness ==
    \E p \in Threads :
        /\ pc[p] = "putlen"
        /\ Len(arg[p]) = U8_MAX
        /\ tloc[p] = root + 1
        /\ tloc[p] = Len(chunks)
        /\ chunks[root].pos > 0

\* Where the record of h ends: one past its last content byte.
RecEnd(h) == h.o + RecSize(get(h))

\* The records of the Strs in H, each as <<chunk, first offset, end>>.
Recs(H) == {<<h.c, h.o, RecEnd(h)>> : h \in H}

\* The records of the Strs in H tile the used part of every chunk: each lies
\* in a chunk and below its cursor, no two overlap, and every byte below a
\* cursor is in one of them.
Tiled(H) ==
    LET R == Recs(H) IN
    /\ \A r \in R : r[1] \in 1..Len(chunks) /\ r[3] <= chunks[r[1]].pos
    /\ \A r1 \in R : \A r2 \in R :
          (r1 # r2 /\ r1[1] = r2[1]) => (r1[3] <= r2[2] \/ r2[3] <= r1[2])
    /\ \A c \in 1..Len(chunks) : \A i \in 0..(chunks[c].pos - 1) :
          \E r \in R : r[1] = c /\ r[2] <= i /\ i < r[3]

\* The sum of the cursors of chunks 1..n.
RECURSIVE SumPos(_)
SumPos(n) == IF n = 0 THEN 0 ELSE chunks[n].pos + SumPos(n - 1)

\* The sum of length + 1 over a set of contents.
RECURSIVE SumSizes(_)
SumSizes(S) ==
    IF S = {} THEN 0
    ELSE LET s == CHOOSE x \in S : TRUE IN RecSize(s) + SumSizes(S \ {s})

\* The contents of the Strs in H.
Contents(H) == {get(h) : h \in H}

\* The Str of the record whose cursor is advanced and which is not yet in
\* the set: the call is between Chunk::insert's return and all.insert.
Unregistered == {res[p] : p \in {q \in Threads : pc[q] \in {"setroot", "register"}}}

\* C19 as stated: in every state the used part of every chunk is tiled by
\* the records of the Strs in the set, and the cursors add up to the sum of
\* length + 1 over the set's contents. (Fails between t.pos += .. and
\* root.all.insert(t).)
C19_TiledBySet ==
    /\ Tiled(all)
    /\ SumPos(Len(chunks)) = SumSizes(Contents(all))

\* C19, amended: the used part of every chunk is tiled by the records of
\* the Strs in the set together with the record a call inside the mutex
\* has written and not yet put in the set (at most one, and only between
\* the cursor's advance and all.insert); the cursors add up to the sum of
\* length + 1 over those contents. In every other state there is no such
\* record, so whenever the mutex is free the set alone tiles and sums up.
C19_Tiling ==
    LET H == all \cup Unregistered IN
    /\ Cardinality(Unregistered) <= 1
    /\ Unregistered \cap all = {}
    /\ Unregistered # {} => mutex # 0 /\ pc[mutex] \in {"setroot", "register"}
    /\ Tiled(H)
    /\ Cardinality(Contents(H)) = Cardinality(H)
    /\ SumPos(Len(chunks)) = SumSizes(Contents(H))

\* C19 witness: a call has advanced the cursor of a second chunk over its
\* record and not yet registered it: the set tiles the first chunk, holding
\* more than one record, but not the second, and with the new record the
\* tiling is whole.
C19_Witness ==
    \E p \in Threads :
        /\ pc[p] = "register"
        /\ res[p].c = 2
        /\ Cardinality({h \in all : h.c = 1}) > 1
        /\ ~Tiled(all)
        /\ Tiled(all \cup {res[p]})
        /\ SumPos(Len(chunks)) = SumSizes(Contents(all)) + RecSize(arg[p])

\* C20: Chunk::insert leaves a chunk for a new one only when what is left
\* of it is no more than the length of the s that did not fit, which is at
\* most u8::MAX; so every chunk that was left (a later chunk exists) has an
\* unused tail of at most u8::MAX bytes: its cursor is at least
\* CHUNK_SIZE - u8::MAX.
C20_TailBound ==
    /\ [](\A c \in 1..Len(chunks) :
             c < Len(chunks) =>
                /\ Free(c) <= U8_MAX
                /\ chunks[c].pos >= CHUNK_SIZE - U8_MAX)
    /\ [][ \A p \in Threads :
             (pc[p] = "insert" /\ tloc'[p] # tloc[p]) =>
                /\ Free(tloc[p]) <= Len(arg[p])
                /\ Len(arg[p]) <= U8_MAX
                /\ tloc[p] < Len(chunks') ]_vars

\* C20 witness: a chunk was left with the largest tail there can be,
\* u8::MAX bytes, for a string of u8::MAX bytes that is now being written
\* into the next chunk.
C20_Witness ==
    \E p \in Threads :
        /\ pc[p] = "copy"
        /\ Len(arg[p]) = U8_MAX
        /\ tloc[p] = Len(chunks)
        /\ tloc[p] > 1
        /\ Free(tloc[p] - 1) = U8_MAX

====
